---- MODULE Spec2Model ----
(***************************************************************************)
(* Model of climate.c: main, analyze_file, getIndex and print_report.      *)
(*                                                                         *)
(* Numbers are fixed point so that the arithmetic of the source is exact:  *)
(*   - a timestamp token is an integer number of milliseconds;             *)
(*   - a surface temperature token is in hundredths of a kelvin;           *)
(*   - a Fahrenheit temperature is in thousandths of a degree, so that     *)
(*     atof(token) * 1.8 - 459.67 is  k * 18 - 459670;                     *)
(*   - humidity and cloud cover are whole percents.                        *)
(* An unsigned long is represented by the integer v in a window around 0   *)
(* of the ring of 2^64 values: v >= 0 stands for v, v < 0 for 2^64 + v     *)
(* (so -1 is ULONG_MAX), and ++ is v + 1, which wraps -1 to 0.             *)
(***************************************************************************)
EXTENDS Integers, Sequences, FiniteSets, TLC

\* ---------------------------------------------------------------- bounds
MaxFiles == 2
MaxLines == 2

\* ------------------------------------------------------- program constants
NUM_STATES == 50
EXIT_FAILURE == 1

Slots == 0 .. (NUM_STATES - 1)

\* The null pointer of struct climate_info *states[NUM_STATES] = { NULL }.
NULL == [null |-> TRUE]

\* ------------------------------------------------------------ input domain
Codes == {"CA", "TX"}
Timestamps == {1000000, 2000000}
\* 250.00 K = -9.67 F, 273.15 K = 32 F, 283.15 K = 50 F
Kelvins == {25000, 27315, 28315}

\* One well-formed line of a TDV file: the nine tab-separated fields, the two
\* unused ones (geolocation, pressure) left out.  The humidity, snow, cloud
\* cover and lightning fields of an observation go together.
ObsAt(ts) ==
    IF ts = 1000000
    THEN [humidity |-> 50, snow |-> 0, cloud |-> 10, lightning |-> 0]
    ELSE [humidity |-> 60, snow |-> 1, cloud |-> 20, lightning |-> 1]

Lines ==
    { [code |-> c, timestamp |-> ts, humidity |-> ObsAt(ts).humidity,
       snow |-> ObsAt(ts).snow, cloud |-> ObsAt(ts).cloud,
       lightning |-> ObsAt(ts).lightning, temperature |-> k] :
         c \in Codes, ts \in Timestamps, k \in Kelvins }

\* What malloc leaves in the members analyze_file never assigns at creation
\* (num_records, max_date, min_date): a zero-filled block, a block of 0xFF
\* bytes, or stale data.
Garbage ==
    { [num_records |-> 0,  max_date |-> 0,     min_date |-> 0],
      [num_records |-> -1, max_date |-> -1,    min_date |-> -1],
      [num_records |-> 7,  max_date |-> 12345, min_date |-> 54321] }

VARIABLES
    argv,      \* argv[1..argc-1]: TRUE when fopen(argv[i], "r") succeeds
    pc,        \* "main" | "analyze" | "exited" | "crashed"
    i,         \* main's loop variable
    states,    \* struct climate_info *states[NUM_STATES]
    stdout,    \* what has been printed, in order
    exit,      \* exit status: -1 while running, 0, EXIT_FAILURE, 139 (SIGSEGV)
    lines,     \* the lines fgets has returned so far, over all files
    folded,    \* folded[k]: the slot lines[k] was folded into, -1 if none
    badDeref   \* the empty slot getIndex dereferenced last, -1 if none

vars == <<argv, pc, i, states, stdout, exit, lines, folded, badDeref>>

argc == Len(argv) + 1

RECURSIVE SeqsUpTo(_, _)
SeqsUpTo(S, n) ==
    IF n = 0 THEN { <<>> }
    ELSE SeqsUpTo(S, n - 1) \cup
         { Append(s, x) : s \in { t \in SeqsUpTo(S, n - 1) : Len(t) = n - 1 }, x \in S }

Init ==
    /\ argv \in SeqsUpTo(BOOLEAN, MaxFiles)
    /\ pc = "main"
    /\ i = 1
    /\ states = [s \in Slots |-> NULL]
    /\ stdout = <<>>
    /\ exit = -1
    /\ lines = <<>>
    /\ folded = <<>>
    /\ badDeref = -1

\* ---------------------------------------------------------------- helpers
\* strcmp is only tested for zero / non-zero.
strcmp(a, b) == IF a = b THEN 0 ELSE 1

\* num_records++ on an unsigned long (window representation).
ULongInc(v) == v + 1

\* double tempF = atof(token) * 1.8 - 459.67
tempF(k) == k * 18 - 459670

\* unsigned long date = atol(token) / 1000
dateOf(ts) == ts \div 1000

\* getIndex: the scan from index i.  The loop condition is *states != NULL,
\* i.e. states[0]; the body returns i when the codes DIFFER.
\* Result: [kind |-> "ret", val |-> n], or "null" / "oob" with the index at
\* which the scan reads an empty slot / leaves the array.
RECURSIVE getIndexFrom(_, _, _)
getIndexFrom(n, code, st) ==
    IF st[0] = NULL
    THEN [kind |-> "ret", val |-> IF n = 0 THEN -50 ELSE -n]
    ELSE IF n >= NUM_STATES THEN [kind |-> "oob", val |-> n]
    ELSE IF st[n] = NULL THEN [kind |-> "null", val |-> n]
    ELSE IF strcmp(st[n].code, code) # 0 THEN [kind |-> "ret", val |-> n]
    ELSE getIndexFrom(n + 1, code, st)

getIndex(code, st) == getIndexFrom(0, code, st)

\* The block analyze_file initialises after malloc (lines 138-148).
NewState(token, g) ==
    [code |-> token,
     num_records |-> g.num_records,
     sum_humidity |-> 0,
     sum_temperature |-> 0,
     max_temperature |-> 0,
     max_date |-> g.max_date,
     min_temperature |-> 0,
     min_date |-> g.min_date,
     lightning_strikes |-> 0,
     snow |-> 0,
     sum_cloud |-> 0]

\* Lines 183-190: the two comparisons, both against max_temperature.
Extremes(state, t, date) ==
    LET s1 == IF t > state.max_temperature
              THEN [state EXCEPT !.max_temperature = t, !.max_date = date]
              ELSE state
    IN  IF t < s1.max_temperature
        THEN [s1 EXCEPT !.min_temperature = t, !.min_date = date]
        ELSE s1

\* Fold with strcpy(state->code, token) executed for every line instead of
\* only at creation.
FoldCopiesCode(state, line) ==
    LET t == tempF(line.temperature)
        s0 == [state EXCEPT
                 !.code = line.code,
                 !.num_records = ULongInc(@),
                 !.sum_humidity = @ + line.humidity,
                 !.snow = @ + line.snow,
                 !.sum_cloud = @ + line.cloud,
                 !.lightning_strikes = @ + line.lightning,
                 !.sum_temperature = @ + t]
    IN  Extremes(s0, t, dateOf(line.timestamp))

\* Lines 150-190: one record accumulated into *state.
Fold(state, line) ==
    LET t == tempF(line.temperature)
        s0 == [state EXCEPT
                 !.num_records = ULongInc(@),
                 !.sum_humidity = @ + line.humidity,
                 !.snow = @ + line.snow,
                 !.sum_cloud = @ + line.cloud,
                 !.lightning_strikes = @ + line.lightning,
                 !.sum_temperature = @ + t]
    IN  Extremes(s0, t, dateOf(line.timestamp))

\* print_report: one block per non-NULL slot, by increasing index.
RECURSIVE ReportFrom(_, _)
ReportFrom(n, st) ==
    IF n >= NUM_STATES THEN << [kind |-> "end"] >>
    ELSE IF st[n] # NULL
         THEN << [kind |-> "state", info |-> st[n]] >> \o ReportFrom(n + 1, st)
         ELSE ReportFrom(n + 1, st)

print_report(st) == << [kind |-> "header"] >> \o ReportFrom(0, st)

\* ---------------------------------------------------------------- actions
\* main, lines 98-101.
Usage ==
    /\ pc = "main"
    /\ argc < 2
    /\ stdout' = Append(stdout, [kind |-> "usage"])
    /\ exit' = EXIT_FAILURE
    /\ pc' = "exited"
    /\ UNCHANGED <<argv, i, states, lines, folded, badDeref>>

\* main, lines 109-114: fopen fails.
OpenFail ==
    /\ pc = "main"
    /\ argc >= 2
    /\ i < argc
    /\ ~argv[i]
    /\ stdout' = Append(stdout, [kind |-> "diag", file |-> i])
    /\ i' = i + 1
    /\ UNCHANGED <<argv, pc, states, exit, lines, folded, badDeref>>

\* main, lines 109-116: fopen succeeds, analyze_file is entered.
OpenOk ==
    /\ pc = "main"
    /\ argc >= 2
    /\ i < argc
    /\ argv[i]
    /\ pc' = "analyze"
    /\ UNCHANGED <<argv, i, states, stdout, exit, lines, folded, badDeref>>

\* analyze_file, one iteration of the while loop, getIndex returning.
AnalyzeLine(line, g) ==
    /\ pc = "analyze"
    /\ Len(lines) < MaxLines
    /\ LET r == getIndex(line.code, states)
       IN  /\ r.kind = "ret"
           /\ LET index == IF r.val < 0
                           THEN (IF r.val = -50 THEN 0 ELSE -r.val)
                           ELSE r.val
                  st1 == IF r.val < 0
                         THEN [states EXCEPT ![index] = NewState(line.code, g)]
                         ELSE states
              IN  /\ index \in Slots
                  /\ states' = [st1 EXCEPT ![index] = Fold(st1[index], line)]
                  /\ folded' = Append(folded, index)
    /\ lines' = Append(lines, line)
    /\ UNCHANGED <<argv, pc, i, stdout, exit, badDeref>>

\* analyze_file, one iteration in which getIndex evaluates states[n]->code
\* for an empty slot n: undefined behaviour.  The process is killed by
\* SIGSEGV, or the read and the writes that follow go through the null
\* pointer unnoticed and the table is left as it was.
AnalyzeLineUB(line, outcome) ==
    /\ pc = "analyze"
    /\ Len(lines) < MaxLines
    /\ LET r == getIndex(line.code, states)
       IN  /\ r.kind \in {"null", "oob"}
           /\ badDeref' = r.val
    /\ lines' = Append(lines, line)
    /\ folded' = Append(folded, -1)
    /\ IF outcome = "crash"
       THEN /\ pc' = "crashed"
            /\ exit' = 139
       ELSE UNCHANGED <<pc, exit>>
    /\ UNCHANGED <<argv, i, states, stdout>>

\* analyze_file returns (fgets gives NULL); main, lines 117-118.
EndOfFile ==
    /\ pc = "analyze"
    /\ pc' = "main"
    /\ i' = i + 1
    /\ UNCHANGED <<argv, states, stdout, exit, lines, folded, badDeref>>

\* main, lines 121-123.
Report ==
    /\ pc = "main"
    /\ argc >= 2
    /\ i >= argc
    /\ stdout' = stdout \o print_report(states)
    /\ exit' = 0
    /\ pc' = "exited"
    /\ UNCHANGED <<argv, i, states, lines, folded, badDeref>>

Next ==
    \/ Usage
    \/ OpenFail
    \/ OpenOk
    \/ \E line \in Lines, g \in Garbage : AnalyzeLine(line, g)
    \/ \E line \in Lines, outcome \in {"crash", "lost"} : AnalyzeLineUB(line, outcome)
    \/ EndOfFile
    \/ Report

Spec == Init /\ [][Next]_vars

\* ------------------------------------------------------------ properties
Ended == pc \in {"exited", "crashed"}

LineNos == 1 .. Len(lines)

\* The slots holding an aggregate with code c.
AggsOf(c) == { s \in Slots : states[s] # NULL /\ states[s].code = c }

\* The lines folded into slot s, by line number.
FoldedInto(s) == { k \in LineNos : folded[k] = s }

\* The lines read so far that carry code c.
LinesOf(c) == { k \in LineNos : lines[k].code = c }

TempsOf(K) == { tempF(lines[k].temperature) : k \in K }

MinOf(S) == CHOOSE x \in S : \A y \in S : x <= y
MaxOf(S) == CHOOSE x \in S : \A y \in S : x >= y

\* The first line of K whose temperature is t.
FirstWith(K, t) == MinOf({ k \in K : tempF(lines[k].temperature) = t })

\* Unsigned order on the window representation of unsigned long.
ULongLeq(a, b) == IF (a < 0) = (b < 0) THEN a <= b ELSE b < 0

RECURSIVE SumRecords(_)
SumRecords(n) ==
    IF n >= NUM_STATES THEN 0
    ELSE (IF states[n] # NULL THEN states[n].num_records ELSE 0) + SumRecords(n + 1)

\* The distinct codes of a sequence of lines, in order of first appearance.
RECURSIVE Discovery(_, _)
Discovery(ls, seen) ==
    IF ls = <<>> THEN <<>>
    ELSE IF Head(ls).code \in seen THEN Discovery(Tail(ls), seen)
         ELSE <<Head(ls).code>> \o Discovery(Tail(ls), seen \cup {Head(ls).code})

\* The codes of the blocks of a printed report, in order.
RECURSIVE BlockCodes(_)
BlockCodes(out) ==
    IF out = <<>> THEN <<>>
    ELSE IF Head(out).kind = "state"
         THEN <<Head(out).info.code>> \o BlockCodes(Tail(out))
         ELSE BlockCodes(Tail(out))

HasKind(out, kd) == \E n \in 1 .. Len(out) : out[n].kind = kd

\* C1: after processing any sequence of lines, every code of the input has
\* exactly one aggregate in the table, and the lookup of each line resolved
\* to that aggregate.
C1_OneAggregatePerCode ==
    pc # "crashed" =>
        \A k \in LineNos :
            /\ Cardinality(AggsOf(lines[k].code)) = 1
            /\ folded[k] \in AggsOf(lines[k].code)

\* C2: num_records of every aggregate is the number of lines folded into it
\* (counting from zero at creation), and the counts add up to the number of
\* lines read.
C2_RecordCount ==
    pc # "crashed" =>
        /\ \A s \in Slots :
              states[s] # NULL => states[s].num_records = Cardinality(FoldedInto(s))
        /\ SumRecords(0) = Len(lines)

\* C3: the two-line CA scenario ends with a single CA aggregate holding
\* 2 records, humidity sum 110, max 50F at 2000 s, min 32F at 1000 s,
\* 1 lightning strike, 1 snow record and cloud sum 30.
Scenario ==
    << [code |-> "CA", timestamp |-> 1000000, humidity |-> 50, snow |-> 0,
        cloud |-> 10, lightning |-> 0, temperature |-> 27315],
       [code |-> "CA", timestamp |-> 2000000, humidity |-> 60, snow |-> 1,
        cloud |-> 20, lightning |-> 1, temperature |-> 28315] >>

C3_Scenario ==
    (Ended /\ lines = Scenario) =>
        /\ pc = "exited"
        /\ \E s \in Slots :
              /\ \A u \in Slots : states[u] # NULL <=> u = s
              /\ states[s].code = "CA"
              /\ states[s].num_records = 2
              /\ states[s].sum_humidity = 110
              /\ states[s].max_temperature = 50000
              /\ states[s].max_date = 2000
              /\ states[s].min_temperature = 32000
              /\ states[s].min_date = 1000
              /\ states[s].lightning_strikes = 1
              /\ states[s].snow = 1
              /\ states[s].sum_cloud = 30

\* C4: when two lines of the same state carry the state's maximum
\* temperature, the aggregate's max_date is the timestamp of the first.
TiedMax(c) ==
    /\ LinesOf(c) # {}
    /\ Cardinality({ k \in LinesOf(c) :
           tempF(lines[k].temperature) = MaxOf(TempsOf(LinesOf(c))) }) >= 2

C4_TieKeepsFirst ==
    pc # "crashed" =>
        \A c \in Codes :
            TiedMax(c) =>
                \E s \in AggsOf(c) :
                    states[s].max_date =
                        dateOf(lines[FirstWith(LinesOf(c), MaxOf(TempsOf(LinesOf(c))))].timestamp)

\* C5: the report has one block for every distinct code of the input, in
\* the order in which the codes were first read.
C5_DiscoveryOrder ==
    (pc = "exited" /\ exit = 0) => BlockCodes(stdout) = Discovery(lines, {})

\* C6: a file that cannot be opened gets a diagnostic naming it, leaves the
\* table as it is and does not stop the run, which ends with the report
\* and status 0; the status is non-zero only when no file argument was
\* given, and then nothing is read and no report is printed.
C6_OpenFailureNotFatal ==
    /\ [](Ended =>
            IF argc < 2
            THEN /\ exit # 0
                 /\ lines = <<>>
                 /\ ~HasKind(stdout, "header")
            ELSE /\ exit = 0
                 /\ HasKind(stdout, "header")
                 /\ \A n \in 1 .. Len(argv) :
                       ~argv[n] => \E m \in 1 .. Len(stdout) :
                                      stdout[m] = [kind |-> "diag", file |-> n])
    /\ [][(pc = "main" /\ argc >= 2 /\ i < argc /\ ~argv[i]) =>
              /\ states' = states
              /\ i' = i + 1
              /\ pc' = "main"
              /\ stdout' = Append(stdout, [kind |-> "diag", file |-> i])]_vars

\* C7: the min of an aggregate is the least temperature folded into it, and
\* min_date the timestamp of the first line achieving it.
C7_MinIsLeast ==
    \A s \in Slots :
        (states[s] # NULL /\ FoldedInto(s) # {}) =>
            /\ states[s].min_temperature = MinOf(TempsOf(FoldedInto(s)))
            /\ states[s].min_date =
                  dateOf(lines[FirstWith(FoldedInto(s), MinOf(TempsOf(FoldedInto(s))))].timestamp)

\* C8: after the first fold max and min are the first line's temperature and
\* both dates its timestamp, whatever the temperature; afterwards the max is
\* the highest temperature folded.
C8_FirstRecordSetsExtremes ==
    \A s \in Slots :
        (states[s] # NULL /\ FoldedInto(s) # {}) =>
            /\ states[s].max_temperature = MaxOf(TempsOf(FoldedInto(s)))
            /\ Cardinality(FoldedInto(s)) = 1 =>
                  LET l == lines[MinOf(FoldedInto(s))]
                  IN  /\ states[s].max_temperature = tempF(l.temperature)
                      /\ states[s].min_temperature = tempF(l.temperature)
                      /\ states[s].max_date = dateOf(l.timestamp)
                      /\ states[s].min_date = dateOf(l.timestamp)

\* C9 as stated: no step lowers num_records, sum_humidity, sum_temperature,
\* sum_cloud, lightning_strikes or snow of an aggregate, and its code never
\* changes.
C9_AllMonotone ==
    [][\A s \in Slots :
          states[s] # NULL =>
              /\ states'[s] # NULL
              /\ states'[s].code = states[s].code
              /\ ULongLeq(states[s].num_records, states'[s].num_records)
              /\ states'[s].sum_humidity >= states[s].sum_humidity
              /\ states'[s].sum_temperature >= states[s].sum_temperature
              /\ states'[s].sum_cloud >= states[s].sum_cloud
              /\ states'[s].lightning_strikes >= states[s].lightning_strikes
              /\ states'[s].snow >= states[s].snow]_vars

\* C9 amended: no step lowers sum_humidity, sum_cloud, lightning_strikes or
\* snow of an aggregate or changes its code; a fold adds one to num_records
\* modulo 2^64 and the line's Fahrenheit temperature, which may be negative,
\* to sum_temperature.
C9_Amended ==
    [][\A s \in Slots :
          states[s] # NULL =>
              /\ states'[s] # NULL
              /\ states'[s].code = states[s].code
              /\ states'[s].sum_humidity >= states[s].sum_humidity
              /\ states'[s].sum_cloud >= states[s].sum_cloud
              /\ states'[s].lightning_strikes >= states[s].lightning_strikes
              /\ states'[s].snow >= states[s].snow
              /\ \/ states'[s] = states[s]
                 \/ /\ Len(lines') = Len(lines) + 1
                    /\ folded'[Len(lines')] = s
                    /\ states'[s].num_records = ULongInc(states[s].num_records)
                    /\ states'[s].sum_temperature =
                          states[s].sum_temperature
                            + tempF(lines'[Len(lines')].temperature)]_vars

\* An aggregate that took a second fold, of a record below 0F with snow.
C9_Witness ==
    /\ Len(lines) >= 2
    /\ folded[1] = 0
    /\ folded[2] = 0
    /\ states[0] # NULL
    /\ states[0].snow >= 1
    /\ tempF(lines[2].temperature) < 0
    /\ states[0].code # lines[2].code

\* C10: getIndex only dereferences slots 0..49 that hold an aggregate, and
\* analyze_file stores a new aggregate only at an index 0..49 that is empty.
C10_MemorySafe ==
    /\ [](badDeref = -1)
    /\ [][(pc = "analyze" /\ Len(lines') = Len(lines) + 1) =>
             LET r == getIndex(lines'[Len(lines')].code, states)
                 index == IF r.val = -50 THEN 0 ELSE -r.val
             IN  (r.kind = "ret" /\ r.val < 0) =>
                     (index \in Slots /\ states[index] = NULL)]_vars

====
